---------------------------- MODULE Spec2Model ----------------------------
(***************************************************************************)
(* Model of the vector-store file synchronisation of chat_api_doc:         *)
(*   sync.py            sync_assistant_files / download_markdown_files /   *)
(*                      clean_filename / update_assistant_files            *)
(*   openai_assistant.py Assistant.empty_files / create_vs / upload_file   *)
(* The remote service (assistant, vector stores, files) is the             *)
(* environment: every remote call chooses one of the outcomes the code     *)
(* distinguishes (a result, a "deleted = false" answer, an exception).     *)
(***************************************************************************)
EXTENDS Integers, Sequences, FiniteSets, TLC

\* ------------------------------------------------------------- bounds
\* Number of file entries the canonical vector store may hold before a run.
MaxOld == 1
\* Number of local markdown files of a full sync run (Spec).
MaxSyncFiles == 2
\* Number of files handed to upload_file when it is called on its own
\* (SpecUpload); larger than MAX_CONCURRENCY so that the worker cap binds.
MaxFiles == 6
\* BATCH_SIZE is 100 in openai_assistant.py:219; scaled down so that one
\* attempt of upload_file needs several batches.
BATCH_SIZE == 2
\* The page size "limit = 100" of the failed-file listing
\* (openai_assistant.py:276), scaled down in the same way.
LIMIT == 2
\* Number of vector stores attached when empty_files is called on its own
\* (SpecEmpty).
MaxAttached == 3
\* Number of links of a manifest when download_markdown_files is run on
\* its own (SpecFetch).
MaxLinks == 3
\* Number of runs of equal characters of a label given to clean_filename
\* (SpecClean).
MaxRuns == 3
\* the ids given to delete_storage_files, and the stems in temp_dir
MaxStorageFiles == 2

\* -------------------------------------------------- program constants
\* Longest file name, in bytes, the file system of temp_dir accepts:
\* open(filename, 'wb') at sync.py:67 raises OSError (ENAMETOOLONG) for a
\* longer one.
NameMax == 255
\* Bytes of a CJK character in a file name (UTF-8).
WideBytes == 3
MAX_RETRIES == 3
MAX_CONCURRENCY == 5
\* sync.py:84, "if len(clean_text) > 100".
MaxNameLen == 100
\* sync.py:85, "clean_text[:97]".
KeepLen == 97

\* ------------------------------------------------------------ universe
\* Vector store ids: 1..MaxAttached may be attached before the run, the
\* next one is the id vector_stores.create hands out.
NewStore == MaxAttached + 1
StoreIds == 1..NewStore
\* File ids: 1..MaxOld are files that exist before the run, the k-th local
\* file gets the id MaxOld + k from files.create.
AllFiles == IF MaxFiles > MaxSyncFiles THEN MaxFiles ELSE MaxSyncFiles
FileIds == 1..(MaxOld + AllFiles)
OldIds == 1..MaxOld
NewId(k) == MaxOld + k
Absent == "absent"
FileStatus == {"in_progress", "completed", "failed"}

VARIABLES
    \* remote state
    attached,      \* assistant.tool_resources.file_search.vector_store_ids
    stores,        \* ids of the vector stores that exist
    expired,       \* ids of the vector stores whose status is "expired"
    entries,       \* entries[v][f]: status of file f in store v, or Absent
    blobs,         \* ids of the files that exist in file storage
    \* control
    pc,
    \* empty_files
    vsIds,         \* vector_store_ids (local of empty_files / create_vs)
    efIdx,         \* position in vector_store_ids[1:]
    listed,        \* vector_store_files still to be deleted
    nListed,       \* len(vector_store_files)
    isProcessing,  \* is_processing_files
    failedVs,      \* failed_vector_store_files
    failedOa,      \* failed_openai_files
    isExpired,     \* is_expired
    efResult,      \* "none" until empty_files returns, then "true"/"false"
    efLog,         \* what empty_files did: issued deletes, fallback taken
    \* update_assistant_files / create_vs / upload_file
    nFiles,        \* len(file_paths_and_urls)
    target,        \* vector_store_id given to upload_file (0: none yet)
    task,          \* task[k]: state of the k-th submitted upload
    uploads,       \* uploads[k]: times _upload_single_file ran for file k
    file_ids, total_files, retry_count, successful_files,
    remaining,     \* ids of file_ids not yet submitted in this attempt
    upLog,         \* what upload_file did (batches, queries, aborts)
    upRet,         \* "none" | "true" | "false" | "raised"
    status,        \* last status shown: "none" | "success" | "error"
    \* sync_assistant_files
    llm_txt_url,   \* assistant.get("llm_txt_url"): "None" | "" | "url"
    \* download_markdown_files
    manifest,      \* the text of llm.txt, as its sequence of links
    dlIdx,         \* number of documents requested so far
    dlFailed,      \* a request of this run was answered with a failure
    wrFailed,      \* a fetched document could not be written to temp_dir
    dir,           \* names (without ".md") of the files in temp_dir
    \* clean_filename on its own
    cf,            \* a label followed by its successive cleanings
    \* delete_storage_files / upload_new_files on their own
    sfIds,         \* file_ids still to be deleted
    sfDir,         \* the entries of temp_dir: [name, md]
    sfTodo,        \* files_to_upload not yet uploaded, in listing order
    new_file_ids,  \* new_file_ids
    sfWarned       \* the ids "Failed to delete file" was logged for

remoteVars == <<attached, stores, expired, entries, blobs>>
efVars == <<vsIds, efIdx, listed, nListed, isProcessing, failedVs, failedOa,
            isExpired, efResult, efLog>>
upVars == <<nFiles, target, task, uploads, file_ids, total_files,
            retry_count, successful_files, remaining, upLog, upRet>>
vars == <<attached, stores, expired, entries, blobs, pc, vsIds, efIdx,
          listed, nListed, isProcessing, failedVs, failedOa, isExpired,
          efResult, efLog, nFiles, target, task, uploads, file_ids,
          total_files, retry_count, successful_files, remaining, upLog,
          upRet, status, llm_txt_url, manifest, dlIdx, dlFailed, wrFailed,
          dir, cf, sfIds, sfDir, sfTodo, new_file_ids, sfWarned>>
fetchVars == <<llm_txt_url, manifest, dlIdx, dlFailed, wrFailed, dir, cf>>
storVars == <<sfIds, sfDir, sfTodo, new_file_ids, sfWarned>>

\* ------------------------------------------------------------- helpers
Min(a, b) == IF a < b THEN a ELSE b
MinOf(S) == CHOOSE x \in S : \A y \in S : x <= y
Remove(s, v) == SelectSeq(s, LAMBDA x : x # v)
Range(s) == {s[i] : i \in 1..Len(s)}
NoEntries == [f \in FileIds |-> Absent]
EntriesOf(v) == {f \in FileIds : entries[v][f] # Absent}

\* ------------------------------------------------------------- strings
\* A string is the sequence of its runs <<c, n>>: n >= 1 copies of the
\* character c, neighbouring runs having different characters.  "/" stands
\* for the characters of the class at sync.py:80, "a" for an ordinary
\* character of one byte and "w" for an ordinary character of three bytes
\* (a CJK character) in the encoding of file names.
Chars == {"a", "w", "_", ".", " ", "/"}
WideChars == {"w"}
IllegalChars == {"/"}
StripChars == {".", " "}
Ellipsis == << <<".", 3>> >>

RECURSIVE StrLen(_)
StrLen(s) == IF s = <<>> THEN 0 ELSE s[1][2] + StrLen(Tail(s))

\* len(os.fsencode(s)): the bytes of s in a file name.
RECURSIVE ByteLen(_)
ByteLen(s) ==
    IF s = <<>> THEN 0
    ELSE (IF s[1][1] \in WideChars THEN WideBytes ELSE 1) * s[1][2]
            + ByteLen(Tail(s))

\* neighbouring runs of one character are one run.
RECURSIVE Norm(_)
Norm(s) ==
    IF Len(s) < 2 THEN s
    ELSE IF s[1][1] = s[2][1]
           THEN Norm(<< <<s[1][1], s[1][2] + s[2][2]>> >>
                        \o SubSeq(s, 3, Len(s)))
           ELSE <<s[1]>> \o Norm(Tail(s))

\* s[:k]
RECURSIVE Take(_, _)
Take(s, k) ==
    IF k <= 0 \/ s = <<>> THEN <<>>
    ELSE IF s[1][2] <= k
           THEN <<s[1]>> \o Take(Tail(s), k - s[1][2])
           ELSE << <<s[1][1], k>> >>

\* sync.py:80, re.sub(r'[<>:"/\\|?*\x00-\x1f]', '_', text).
Sub(s) ==
    Norm([i \in 1..Len(s) |->
            <<IF s[i][1] \in IllegalChars THEN "_" ELSE s[i][1], s[i][2]>>])

\* sync.py:82, clean_text.strip('. ').
RECURSIVE LStrip(_)
LStrip(s) ==
    IF s # <<>> /\ s[1][1] \in StripChars THEN LStrip(Tail(s)) ELSE s
RECURSIVE RStrip(_)
RStrip(s) ==
    IF s # <<>> /\ s[Len(s)][1] \in StripChars
      THEN RStrip(SubSeq(s, 1, Len(s) - 1)) ELSE s
Strip(s) == RStrip(LStrip(s))

\* mutant of TooLong: a name of exactly MaxNameLen characters is cut too.
TooLongFromLimit(t) == StrLen(t) >= MaxNameLen

\* sync.py:84.
TooLong(t) == StrLen(t) > MaxNameLen

\* sync.py:71-86.
clean_filename(text) ==
    LET clean_text == Strip(Sub(text)) IN
    IF TooLong(clean_text)
      THEN Norm(Take(clean_text, KeepLen) \o Ellipsis)
      ELSE clean_text

\* the labels clean_filename is checked on: up to MaxRuns runs, of lengths
\* around the two thresholds.
InputChars == {"a", ".", " ", "/"}
RunLens == {1, 3, KeepLen, MaxNameLen}
Labels ==
    UNION {{t \in [1..n -> InputChars \X RunLens] :
               \A i \in 1..(n - 1) : t[i][1] # t[i + 1][1]} :
           n \in 0..MaxRuns}

\* ---------------------------------------------------------- manifests
\* The manifest is the sequence of its items: "md" is a link
\* [text](url) whose url ends in ".md", "other" a link with another url,
\* "plain" text that is no link.
LinkKinds == {"md", "other", "plain"}
Word(n) == << <<"a", n>> >>
\* short labels, two of which differ only in an illegal character and two
\* only in a trailing dot.
ShortLabels ==
    {Word(1), Word(1) \o << <<".", 1>> >>,
     Word(1) \o << <<"/", 1>> >> \o Word(1),
     Word(1) \o << <<"_", 1>> >> \o Word(1)}
\* a label of MaxNameLen CJK characters: clean_filename leaves it as it is
\* and its file name is longer than NameMax bytes.
LongLabel == << <<"w", MaxNameLen>> >>
FetchLabels == ShortLabels \cup {LongLabel}
Links == [text : FetchLabels, kind : LinkKinds]
Manifests == UNION {[1..n -> Links] : n \in 0..MaxLinks}
\* the manifest of a full run: one link that is no document, then k
\* documents with k different labels.
SyncManifest(k) ==
    <<[text |-> Word(1), kind |-> "other"]>>
       \o [i \in 1..k |-> [text |-> Word(i), kind |-> "md"]]

\* the same with the long label on its last document.
LongManifest(k) == [SyncManifest(k) EXCEPT ![k + 1].text = LongLabel]
SyncManifests ==
    {SyncManifest(k) : k \in 0..MaxSyncFiles}
       \cup {LongManifest(k) : k \in 1..MaxSyncFiles}

\* sync.py:192-193: what assistant.get("llm_txt_url") may give, and the
\* test "not llm_txt_url".
LlmTxtUrls == {"None", "", "url"}
Configured(url) == url \notin {"None", ""}

\* sync.py:62 and 67: f"{clean_text}.md", and whether open() accepts it.
MdSuffix == << <<".", 1>>, <<"a", 2>> >>
Writable(clean_text) == ByteLen(clean_text \o MdSuffix) <= NameMax

\* sync.py:13-20: re.findall keeps the links, the comprehension those whose
\* url ends in ".md".
extract_markdown_links(content) ==
    LET matches == SelectSeq(content, LAMBDA l : l.kind # "plain") IN
    SelectSeq(matches, LAMBDA l : l.kind = "md")

\* ------------------------------------------------ the remote service
\* vector_stores.delete(v) answering deleted = true: the store and its
\* entries are gone.  Whether the service also drops the id from the
\* assistant's tool_resources is not visible in the code: both happen.
StoresAfterDelete(v) == stores \ {v}
EntriesAfterDelete(v) == [entries EXCEPT ![v] = NoEntries]
AttachedAfterDelete(v) == {attached, Remove(attached, v)}

\* Assistant.get_vector_store_ids: the attached ids, or [] when retrieve
\* raises or file_search is not enabled (ok = FALSE).
get_vector_store_ids(ok) == IF ok THEN attached ELSE <<>>

\* Assistant.delete_vector_store_file(v, f): TRUE when the service answers
\* deleted or NotFoundError (the entry is then absent), FALSE when it
\* answers deleted = false or raises anything else (the entry stays).
delete_vector_store_file(v, f, ok) == ok
EntriesAfterFileDelete(v, f, ok) ==
    IF ok /\ v \in stores THEN [entries EXCEPT ![v][f] = Absent] ELSE entries

\* Assistant.delete_openai_file(f): TRUE when the blob is gone afterwards.
delete_openai_file(f, ok) == ok
BlobsAfterFileDelete(f, ok) == IF ok THEN blobs \ {f} ELSE blobs

\* --------------------------------------------------------------- Init
OldConfigs ==
    UNION {{[f \in FileIds |-> IF f <= k THEN st[f] ELSE Absent] :
               st \in [1..k -> FileStatus]} : k \in 0..MaxOld}

\* what empty_files did, kept for the properties: the extra stores a
\* delete was issued for, those whose delete answered deleted = false, the
\* stores the listing, per-file, status and fallback calls were addressed
\* to, whether the listing found files, the fallback's outcome, and whether
\* an exception reached the handler at line 180.
NoEfLog == [extraDeletes |-> {}, extraRefused |-> {}, touched |-> {},
            listed |-> FALSE, fallback |-> "no", raised |-> FALSE]
\* what upload_file did (batches submitted, failed-file queries, a batch
\* that was not completed, the failed files of attempt 1, the failure
\* count of the last log line), and whether update_assistant_files logged
\* "Failed to upload new files" (sync.py:119).
NoUpLog == [batches |-> 0, queries |-> 0, badBatch |-> FALSE,
            failed1 |-> {}, reported |-> -1, uafError |-> FALSE]

\* delete_storage_files and upload_new_files are not running.
NoStorage ==
    /\ sfIds = <<>> /\ sfDir = {} /\ sfTodo = <<>> /\ new_file_ids = <<>>
    /\ sfWarned = {}

InitLocals ==
    /\ vsIds = <<>> /\ efIdx = 0 /\ listed = {} /\ nListed = 0
    /\ isProcessing = FALSE /\ failedVs = {} /\ failedOa = {}
    /\ isExpired = FALSE /\ efResult = "none" /\ efLog = NoEfLog
    /\ nFiles = 0 /\ target = 0
    /\ task = [k \in 1..AllFiles |-> "none"]
    /\ uploads = [k \in 1..AllFiles |-> 0]
    /\ file_ids = {} /\ total_files = 0 /\ retry_count = 0
    /\ successful_files = 0 /\ remaining = {}
    /\ upLog = NoUpLog /\ upRet = "none" /\ status = "none"

\* nothing fetched, clean_filename not under test.
NoFetch ==
    /\ llm_txt_url = "url"
    /\ manifest = <<>> /\ dlIdx = 0 /\ dlFailed = FALSE /\ dir = {}
    /\ wrFailed = FALSE
    /\ cf = <<>>


\* A sync run (sync_assistant_files) starts with zero, one or two attached
\* stores; the first one holds up to MaxOld files, each with a blob in file
\* storage.  The assistant's configuration has an llm_txt_url, or None or
\* the empty string in its place.  The manifest lists up to MaxSyncFiles
\* documents, the last of which may carry the long label.
Init ==
    /\ attached \in {<<>>, <<1>>, <<1, 2>>}
    /\ stores = Range(attached)
    /\ expired \in SUBSET (stores \cap {1})
    /\ \E e \in OldConfigs :
          entries = [v \in StoreIds |->
                        IF v = 1 /\ 1 \in stores THEN e ELSE NoEntries]
    /\ blobs = {f \in FileIds : entries[1][f] # Absent}
    /\ llm_txt_url \in LlmTxtUrls
    /\ manifest \in SyncManifests
    /\ dlIdx = 0 /\ dlFailed = FALSE /\ wrFailed = FALSE /\ dir = {}
    /\ cf = <<>>
    /\ pc = "sync_start"
    /\ InitLocals
    /\ NoStorage

\* ------------------------------------------------ sync_assistant_files
\* sync.py:182-195: without an llm_txt_url the error is shown and the run
\* returns, no request and no client call made; with one the download
\* starts.
SyncStart ==
    /\ pc = "sync_start"
    /\ IF Configured(llm_txt_url)
         THEN pc' = "dl_manifest" /\ UNCHANGED status
         ELSE pc' = "done" /\ status' = "error"
    /\ UNCHANGED <<remoteVars, efVars, upVars, fetchVars, storVars>>

\* --------------------------------------------- download_markdown_files
\* mutant of Fetched: raise_for_status is not called.
FetchedUnchecked(resp) == resp # "no_response"

\* sync.py:50-51 and 63-64: requests.get raises when there is no response,
\* raise_for_status when the response is an HTTP error.
Responses == {"ok", "http_error", "no_response"}
Fetched(resp) == resp = "ok"

\* sync.py:48-55: the manifest is requested and its links extracted.
DlManifest ==
    /\ pc = "dl_manifest"
    /\ \E resp \in Responses :
          /\ dlFailed' = (resp # "ok")
          /\ pc' = IF ~Fetched(resp) THEN "sync_except"
                   ELSE IF extract_markdown_links(manifest) = <<>>
                          THEN "ef_get" ELSE "dl_doc"
    /\ UNCHANGED <<remoteVars, efVars, upVars, status, llm_txt_url,
                   manifest, dlIdx, wrFailed, dir, cf, storVars>>

\* sync.py:57-68: one iteration of the loop over md_links: the document is
\* requested and written to temp_dir/<clean_filename(text)>.md; open()
\* raises when the file system does not accept the name, and no file is
\* written then.
DlDoc ==
    /\ pc = "dl_doc"
    /\ LET md_links == extract_markdown_links(manifest)
           text == md_links[dlIdx + 1].text
           clean_text == clean_filename(text) IN
       \E resp \in Responses :
          /\ dlIdx' = dlIdx + 1
          /\ dlFailed' = (resp # "ok")
          /\ IF ~Fetched(resp)
               THEN pc' = "sync_except" /\ UNCHANGED <<dir, wrFailed>>
               ELSE IF ~Writable(clean_text)
                 THEN /\ pc' = "sync_except"
                      /\ wrFailed' = TRUE
                      /\ UNCHANGED dir
                 ELSE /\ dir' = dir \cup {clean_text}
                      /\ pc' = IF dlIdx + 1 < Len(md_links)
                                 THEN "dl_doc" ELSE "ef_get"
                      /\ UNCHANGED wrFailed
    /\ UNCHANGED <<remoteVars, efVars, upVars, status, llm_txt_url,
                   manifest, cf, storVars>>

\* sync.py:211-213: an exception of the download (a failed request, a
\* document that could not be written) is reported.
SyncExcept ==
    /\ pc = "sync_except"
    /\ status' = "error"
    /\ pc' = "done"
    /\ UNCHANGED <<remoteVars, efVars, upVars, fetchVars, storVars>>

\* sync.py:71-86 on its own: cf grows by the cleaning of its last element.
CleanFilename ==
    /\ pc = "clean"
    /\ Len(cf) < 3
    /\ cf' = Append(cf, clean_filename(cf[Len(cf)]))
    /\ UNCHANGED <<remoteVars, efVars, upVars, status, pc, llm_txt_url,
                   manifest, dlIdx, dlFailed, wrFailed, dir, storVars>>

\* -------------------------------------------------------- empty_files
\* return of empty_files (lines 96, 179, 182): the locals go out of scope.
EfReturn(r) ==
    /\ efResult' = r
    /\ pc' = "uaf_check"
    /\ efIdx' = 0 /\ listed' = {} /\ nListed' = 0
    /\ isProcessing' = FALSE /\ failedVs' = {} /\ failedOa' = {}
    /\ isExpired' = FALSE

\* mutant of NothingToClear: no attached store counts as a failure.
NothingToClearFails == "false"

\* line 96: no attached store, "return True".
NothingToClear == "true"

\* mutant of Canonical: the last listed store is taken.
CanonicalLast(ids) == ids[Len(ids)]

\* line 108: vector_store_id = vector_store_ids[0].
Canonical(ids) == ids[1]

\* lines 93-96, 108: discover the stores; none means nothing to clear.
EfGetIds ==
    /\ pc = "ef_get"
    /\ \E ok \in BOOLEAN :
        LET ids == get_vector_store_ids(ok) IN
        /\ vsIds' = ids
        /\ IF ids = <<>>
             THEN EfReturn(NothingToClear)
             ELSE /\ pc' = IF Len(ids) > 1 THEN "ef_extras" ELSE "ef_list"
                  /\ efIdx' = IF Len(ids) > 1 THEN 2 ELSE 0
                  /\ UNCHANGED <<efResult, listed, nListed, isProcessing,
                                 failedVs, failedOa, isExpired>>
    /\ UNCHANGED <<remoteVars, efLog, upVars, status, fetchVars, storVars>>

\* lines 98-106: one iteration of the loop over vector_store_ids[1:].
EfDeleteExtra ==
    /\ pc = "ef_extras"
    /\ LET v == vsIds[efIdx]
           next == IF efIdx < Len(vsIds) THEN "ef_extras" ELSE "ef_list" IN
       \/ \* deleted = true
          /\ v \in stores
          /\ stores' = StoresAfterDelete(v)
          /\ entries' = EntriesAfterDelete(v)
          /\ attached' \in AttachedAfterDelete(v)
          /\ expired' = expired \ {v}
          /\ efLog' = [efLog EXCEPT !.extraDeletes = @ \cup {v}]
          /\ pc' = next /\ efIdx' = efIdx + 1
          /\ UNCHANGED <<blobs, efResult, listed, nListed, isProcessing,
                         failedVs, failedOa, isExpired>>
       \/ \* deleted = false: logged, the loop goes on
          /\ efLog' = [efLog EXCEPT !.extraDeletes = @ \cup {v},
                                    !.extraRefused = @ \cup {v}]
          /\ pc' = next /\ efIdx' = efIdx + 1
          /\ UNCHANGED <<remoteVars, efResult, listed, nListed,
                         isProcessing, failedVs, failedOa, isExpired>>
       \/ \* the call raises: caught at line 180
          /\ efLog' = [efLog EXCEPT !.extraDeletes = @ \cup {v},
                                    !.raised = TRUE]
          /\ EfReturn("false")
          /\ UNCHANGED remoteVars
    /\ UNCHANGED <<vsIds, upVars, status, fetchVars, storVars>>

\* lines 108-128: list the files of the first store (all pages) and note
\* whether one of them is in_progress.
EfList ==
    /\ pc = "ef_list"
    /\ LET v == Canonical(vsIds) IN
       \/ /\ v \in stores
          /\ listed' = EntriesOf(v)
          /\ nListed' = Cardinality(EntriesOf(v))
          /\ isProcessing' = (\E f \in EntriesOf(v) :
                                 entries[v][f] = "in_progress")
          /\ pc' = IF EntriesOf(v) = {} THEN "ef_status" ELSE "ef_del"
          /\ efLog' = [efLog EXCEPT !.listed = EntriesOf(v) # {},
                                    !.touched = @ \cup {v}]
          /\ UNCHANGED <<efResult, efIdx, failedVs, failedOa, isExpired>>
       \/ \* files.list raises (always when the store is gone)
          /\ efLog' = [efLog EXCEPT !.touched = @ \cup {v},
                                    !.raised = TRUE]
          /\ EfReturn("false")
    /\ UNCHANGED <<remoteVars, vsIds, upVars, status, fetchVars, storVars>>

\* lines 133-142: one iteration of the deletion loop: the index entry,
\* then the backing file, each best-effort.
EfDeleteFile ==
    /\ pc = "ef_del"
    /\ LET v == Canonical(vsIds)
           f == MinOf(listed) IN
       \E okVs \in BOOLEAN, okOa \in BOOLEAN :
          /\ efLog' = [efLog EXCEPT !.touched = @ \cup {v}]
          /\ entries' = EntriesAfterFileDelete(v, f, okVs)
          /\ failedVs' = IF delete_vector_store_file(v, f, okVs)
                           THEN failedVs ELSE failedVs \cup {f}
          /\ blobs' = BlobsAfterFileDelete(f, okOa)
          /\ failedOa' = IF delete_openai_file(f, okOa)
                           THEN failedOa ELSE failedOa \cup {f}
          /\ listed' = listed \ {f}
          /\ pc' = IF listed \ {f} = {} THEN "ef_status" ELSE "ef_del"
    /\ UNCHANGED <<attached, stores, expired, vsIds, efIdx, nListed,
                   isProcessing, isExpired, efResult, upVars,
                   status, fetchVars, storVars>>

\* lines 144-157: re-check the store's status; refresh it unless expired.
EfCheckStatus ==
    /\ pc = "ef_status"
    /\ LET v == Canonical(vsIds) IN
       \/ \* retrieve answers (and update, when called, succeeds)
          /\ v \in stores
          /\ isExpired' = (v \in expired)
          /\ pc' = "ef_fallback"
          /\ efLog' = [efLog EXCEPT !.touched = @ \cup {v}]
          /\ UNCHANGED <<efResult, efIdx, listed, nListed, isProcessing,
                         failedVs, failedOa>>
       \/ \* retrieve or update raises
          /\ efLog' = [efLog EXCEPT !.touched = @ \cup {v},
                                    !.raised = TRUE]
          /\ EfReturn("false")
    /\ UNCHANGED <<remoteVars, vsIds, upVars, status, fetchVars, storVars>>

\* mutant of MustDeleteStore: undeleted backing files are not counted.
MustDeleteStoreBlobsIgnored ==
    isProcessing \/ failedVs # {} \/ isExpired

\* line 162: the decision to delete the whole store.
MustDeleteStore ==
    isProcessing \/ failedVs # {} \/ failedOa # {} \/ isExpired

\* mutant of AfterFallback: a refused deletion of the store is a failure.
AfterFallbackStrict(deleted) == IF deleted THEN "true" ELSE "false"

\* lines 165-179: whatever vector_stores.delete answered, "return True".
AfterFallback(deleted) == "true"

\* lines 159-179: destructive fallback, then return True.
EfFinish ==
    /\ pc = "ef_fallback"
    /\ LET v == Canonical(vsIds) IN
       IF MustDeleteStore
         THEN \/ \* deleted = true
                 /\ v \in stores
                 /\ stores' = StoresAfterDelete(v)
                 /\ entries' = EntriesAfterDelete(v)
                 /\ attached' \in AttachedAfterDelete(v)
                 /\ expired' = expired \ {v}
                 /\ efLog' = [efLog EXCEPT !.fallback = "deleted",
                                           !.touched = @ \cup {v}]
                 /\ EfReturn(AfterFallback(TRUE))
                 /\ UNCHANGED blobs
              \/ \* deleted = false: logged, still returns True
                 /\ efLog' = [efLog EXCEPT !.fallback = "failed",
                                           !.touched = @ \cup {v}]
                 /\ EfReturn(AfterFallback(FALSE))
                 /\ UNCHANGED remoteVars
              \/ \* the call raises
                 /\ efLog' = [efLog EXCEPT !.fallback = "raised",
                                           !.touched = @ \cup {v},
                                           !.raised = TRUE]
                 /\ EfReturn("false")
                 /\ UNCHANGED remoteVars
         ELSE /\ EfReturn("true")
              /\ UNCHANGED <<remoteVars, efLog>>
    /\ UNCHANGED <<vsIds, upVars, status, fetchVars, storVars>>

\* ------------------------------------- update_assistant_files, create_vs
\* mutant of EmptyFailed: the result of empty_files is ignored.
EmptyFailedIgnored == FALSE

\* sync.py line 104: "if not assistant.empty_files(): ... return".
EmptyFailed == efResult # "true"

\* upload_file is entered with the list of local files and a store id:
\* every file is submitted to the executor at once (lines 225-232).
StartUpload(v) ==
    /\ target' = v
    /\ task' = [k \in 1..AllFiles |-> IF k <= nFiles THEN "queued" ELSE "none"]
    /\ pc' = "up_pool"

\* sync.py lines 104-118: give up when empty_files failed, otherwise list
\* the scratch directory and call create_vs.
UafAfterEmpty ==
    /\ pc = "uaf_check"
    /\ IF EmptyFailed
         THEN pc' = "sync_tail" /\ UNCHANGED nFiles
         ELSE pc' = "cv_get" /\ nFiles' = Cardinality(dir)
    /\ UNCHANGED <<remoteVars, efVars, target, task, uploads, file_ids,
                   total_files, retry_count, successful_files, remaining,
                   upLog, upRet, status, fetchVars, storVars>>

\* an exception leaves create_vs / upload_file (nothing catches it there).
Raise ==
    /\ upRet' = "raised"
    /\ pc' = "raised"

\* openai_assistant.py lines 192-193, 205, 210.
CvGetIds ==
    /\ pc = "cv_get"
    /\ \E ok \in BOOLEAN :
        LET ids == get_vector_store_ids(ok) IN
        /\ vsIds' = ids
        /\ IF ids = <<>>
             THEN pc' = "cv_create" /\ UNCHANGED <<target, task>>
             ELSE IF Len(ids) > 1
                    THEN pc' = "cv_narrow" /\ UNCHANGED <<target, task>>
                    ELSE StartUpload(ids[1])
    /\ UNCHANGED <<remoteVars, efIdx, listed, nListed, isProcessing,
                   failedVs, failedOa, isExpired, efResult, efLog, nFiles,
                   uploads, file_ids, total_files, retry_count,
                   successful_files, remaining, upLog, upRet,
                   status, fetchVars, storVars>>

\* lines 194-200: vector_stores.create.
CvCreate ==
    /\ pc = "cv_create"
    /\ \/ /\ stores' = stores \cup {NewStore}
          /\ vsIds' = <<NewStore>>
          /\ pc' = "cv_attach"
          /\ UNCHANGED upRet
       \/ Raise /\ UNCHANGED <<stores, vsIds>>
    /\ UNCHANGED <<attached, expired, entries, blobs, efIdx, listed, nListed,
                   isProcessing, failedVs, failedOa, isExpired, efResult,
                   efLog, nFiles, target, task, uploads, file_ids,
                   total_files, retry_count, successful_files, remaining,
                   upLog, status, fetchVars, storVars>>

\* mutant of SoleAttachment: the list read from the assistant is written
\* back as it is.
WholeAttachment(ids) == ids

\* the attachment create_vs writes: lines 203 and 208.
SoleAttachment(ids) == <<ids[1]>>

\* lines 201-204 (after create) and 206-209 (more than one attached):
\* assistants.update, then upload_file(vector_store_ids[0]).
CvAttach ==
    /\ pc \in {"cv_attach", "cv_narrow"}
    /\ \/ /\ attached' = SoleAttachment(vsIds)
          /\ StartUpload(vsIds[1])
          /\ UNCHANGED upRet
       \/ Raise /\ UNCHANGED <<attached, target, task>>
    /\ UNCHANGED <<stores, expired, entries, blobs, vsIds, efIdx, listed,
                   nListed, isProcessing, failedVs, failedOa, isExpired,
                   efResult, efLog, nFiles, uploads, file_ids, total_files,
                   retry_count, successful_files, remaining, upLog,
                   status, fetchVars, storVars>>

\* --------------------------------------------- upload_file, stage 1
Running == {k \in 1..nFiles : task[k] = "running"}
Queued == {k \in 1..nFiles : task[k] = "queued"}
InFlight == Cardinality(Running)

\* mutant of WorkerFree: one worker too many.
WorkerFreeOffByOne == InFlight <= MAX_CONCURRENCY

\* ThreadPoolExecutor(max_workers=MAX_CONCURRENCY), line 225: a queued
\* task starts only while fewer than MAX_CONCURRENCY workers are busy.
WorkerFree == InFlight < MAX_CONCURRENCY

\* a worker takes the oldest queued task and runs _upload_single_file.
UploadStart ==
    /\ pc = "up_pool"
    /\ Queued # {}
    /\ WorkerFree
    /\ LET k == MinOf(Queued) IN
       /\ task' = [task EXCEPT ![k] = "running"]
       /\ uploads' = [uploads EXCEPT ![k] = @ + 1]
    /\ UNCHANGED <<remoteVars, pc, efVars, nFiles, target, file_ids,
                   total_files, retry_count, successful_files, remaining,
                   upLog, upRet, status, fetchVars, storVars>>

\* lines 212-214: files.create returns a new file, or open/create raises
\* and the exception is kept in the future.
UploadFinish ==
    /\ pc = "up_pool"
    /\ \E k \in Running :
          \/ /\ blobs' = blobs \cup {NewId(k)}
             /\ task' = [task EXCEPT ![k] = "done"]
          \/ /\ task' = [task EXCEPT ![k] = "raised"]
             /\ UNCHANGED blobs
    /\ UNCHANGED <<attached, stores, expired, entries, pc, efVars, nFiles,
                   target, uploads, file_ids, total_files, retry_count,
                   successful_files, remaining, upLog, upRet,
                   status, fetchVars, storVars>>

\* mutant of AnyRaised: the exceptions of the futures are not looked at.
AnyRaisedIgnored == FALSE

\* lines 236-238: some future holds an exception.
AnyRaised == \E k \in 1..nFiles : task[k] = "raised"

\* leaving the with-block waits for every worker (executor shutdown).
PoolDrained == \A k \in 1..nFiles : task[k] \in {"done", "raised"}

\* lines 234-247: as_completed over the finished futures; the first
\* exception met is raised again, otherwise the ids are collected.
PoolCollect ==
    /\ pc = "up_pool"
    /\ PoolDrained
    /\ IF AnyRaised
         THEN /\ Raise
              /\ UNCHANGED <<file_ids, total_files, retry_count,
                             successful_files>>
         ELSE /\ file_ids' = {NewId(k) : k \in 1..nFiles}
              /\ total_files' = nFiles
              /\ retry_count' = 0
              /\ successful_files' = 0
              /\ pc' = "up_loop"
              /\ UNCHANGED upRet
    /\ UNCHANGED <<remoteVars, efVars, nFiles, target, task, uploads,
                   remaining, upLog, status, fetchVars, storVars>>

\* --------------------------------------------- upload_file, stage 3
UploadReturn(r) ==
    /\ upRet' = r
    /\ pc' = "up_done"

\* mutant of LoopContinues: the emptiness of file_ids is not tested.
LoopContinuesOnEmpty == retry_count < MAX_RETRIES

\* line 248: "while retry_count < MAX_RETRIES and len(file_ids)".
LoopContinues == retry_count < MAX_RETRIES /\ file_ids # {}

\* line 248: the head of the retry loop; line 314 when it is left.
UpLoop ==
    /\ pc = "up_loop"
    /\ IF LoopContinues
         THEN /\ remaining' = file_ids
              /\ pc' = "up_batch"
              /\ UNCHANGED upRet
         ELSE /\ UploadReturn("false")
              /\ UNCHANGED remaining
    /\ UNCHANGED <<remoteVars, efVars, nFiles, target, task, uploads,
                   file_ids, total_files, retry_count, successful_files,
                   upLog, status, fetchVars, storVars>>

\* mutant of Batches: everything left goes into one batch.
BatchesUnsliced(rest) == {rest}

\* the next slice file_ids[i:i + BATCH_SIZE] (line 252).  The order of
\* file_ids is the iteration order of a set of futures (attempt 1) or the
\* order of the listing (later attempts): any BATCH_SIZE ids not yet
\* submitted, all of them when fewer are left.
Batches(rest) ==
    {b \in SUBSET rest : Cardinality(b) = Min(BATCH_SIZE, Cardinality(rest))}

\* mutant of BatchAborts: only the status "failed" stops the upload.
BatchAbortsOnFailedOnly(st) == st = "failed"

\* lines 259-267: what upload_file does with a polled batch status.
BatchAborts(st) == st # "completed"

\* mutant of Accumulate: the count of the last batch replaces the sum.
AccumulateLastOnly(done) == Cardinality(done)

\* line 260: successful_files += file_batch.file_counts.completed.
Accumulate(done) == successful_files + Cardinality(done)

\* the terminal statuses create_and_poll can report for a batch.
BatchStatus == {"completed", "failed", "cancelled"}

\* the entries of store v after a batch: the files in done are completed,
\* the others of the batch failed.
EntriesAfterBatch(v, batch, done) ==
    [entries EXCEPT ![v] =
        [f \in FileIds |-> IF f \in done THEN "completed"
                           ELSE IF f \in batch THEN "failed" ELSE @[f]]]

\* lines 251-267: one iteration of the batch loop.
SubmitBatch ==
    /\ pc = "up_batch"
    /\ \E batch \in Batches(remaining) :
          \/ \* create_and_poll answers with a batch status
             /\ target \in stores
             /\ \E st \in BatchStatus,
                   done \in SUBSET (batch \cap blobs) :
                   /\ entries' = EntriesAfterBatch(target, batch, done)
                   /\ IF BatchAborts(st)
                        THEN /\ UploadReturn("false")
                             /\ upLog' = [upLog EXCEPT !.batches = @ + 1,
                                                       !.badBatch = TRUE]
                             /\ UNCHANGED <<successful_files, remaining>>
                        ELSE /\ successful_files' = Accumulate(done)
                             /\ remaining' = remaining \ batch
                             /\ pc' = IF remaining \ batch = {}
                                        THEN "up_query" ELSE "up_batch"
                             /\ upLog' = [upLog EXCEPT
                                            !.batches = @ + 1,
                                            !.badBatch =
                                                @ \/ st # "completed"]
                             /\ UNCHANGED upRet
          \/ \* create_and_poll raises (always when the store is gone)
             /\ Raise
             /\ upLog' = [upLog EXCEPT !.batches = @ + 1]
             /\ UNCHANGED <<entries, successful_files, remaining>>
    /\ UNCHANGED <<attached, stores, expired, blobs, efVars, nFiles, target,
                   task, uploads, file_ids, total_files, retry_count,
                   status, fetchVars, storVars>>

\* the entries of store v whose status is "failed".
FailedIn(v) == {f \in FileIds : entries[v][f] = "failed"}

\* lines 273-289: the paginated listing with filter "failed".  It returns
\* every failed entry, or raises on some page: the exception is swallowed
\* and failed_file_ids keeps the whole pages read before it.
FailedListings(v) ==
    {S \in SUBSET FailedIn(v) :
        IF v \in stores THEN Cardinality(S) % LIMIT = 0 ELSE S = {}}
    \cup (IF v \in stores THEN {FailedIn(v)} ELSE {})

\* line 292: the success test after an attempt.
AllUploaded(failed) == failed = {} /\ successful_files = total_files

\* line 297: is another attempt allowed?
AttemptsRemain == retry_count < MAX_RETRIES - 1

\* mutant of BlobsAfterRetryCleanup: the files of the failed entries are
\* deleted with them.
BlobsAfterRetryCleanupPurged(failed) == blobs \ failed

\* lines 303-304: the clean-up before a retry calls
\* delete_vector_store_file only; no file is deleted from storage.
BlobsAfterRetryCleanup(failed) == blobs

\* lines 273-312: query the failed files, then return or prepare a retry
\* (delete the failed entries, best-effort, and retry those ids).
QueryFailed ==
    /\ pc = "up_query"
    /\ \E failed \in FailedListings(target) :
        LET log == [upLog EXCEPT !.queries = @ + 1,
                                 !.failed1 = IF retry_count = 0
                                               THEN FailedIn(target) ELSE @] IN
        IF AllUploaded(failed)
          THEN /\ UploadReturn("true")
               /\ upLog' = log
               /\ UNCHANGED <<entries, blobs, file_ids, retry_count>>
          ELSE IF AttemptsRemain
            THEN /\ \E gone \in SUBSET failed :
                       entries' = [entries EXCEPT ![target] =
                                      [f \in FileIds |->
                                          IF f \in gone THEN Absent ELSE @[f]]]
                 /\ blobs' = BlobsAfterRetryCleanup(failed)
                 /\ file_ids' = failed
                 /\ retry_count' = retry_count + 1
                 /\ pc' = "up_loop"
                 /\ upLog' = log
                 /\ UNCHANGED upRet
            ELSE /\ UploadReturn("false")
                 /\ upLog' = [log EXCEPT !.reported =
                                 total_files - successful_files]
                 /\ UNCHANGED <<entries, blobs, file_ids, retry_count>>
    /\ UNCHANGED <<attached, stores, expired, efVars, nFiles, target,
                   task, uploads, total_files, successful_files, remaining,
                   status, fetchVars, storVars>>

\* ------------------------------------------------- back in sync.py
\* lines 118-123: create_vs returned; the success status is written only
\* when it returned True.
CvReturn ==
    /\ pc = "up_done"
    /\ status' = IF upRet = "true" THEN "success" ELSE status
    /\ upLog' = [upLog EXCEPT !.uafError = (upRet # "true")]
    /\ pc' = "sync_tail"
    /\ UNCHANGED <<remoteVars, efVars, nFiles, target, task, uploads,
                   file_ids, total_files, retry_count, successful_files,
                   remaining, upRet, fetchVars, storVars>>

\* lines 125-128 and 211-213: the exception is reported and raised again,
\* sync_assistant_files reports it and ends.
UafExcept ==
    /\ pc = "raised"
    /\ status' = "error"
    /\ pc' = "done"
    /\ UNCHANGED <<remoteVars, efVars, upVars, fetchVars, storVars>>

\* line 203: update_assistant_files returned without raising.
SyncTail ==
    /\ pc = "sync_tail"
    /\ status' = "success"
    /\ pc' = "done"
    /\ UNCHANGED <<remoteVars, efVars, upVars, fetchVars, storVars>>

\* ------------------------------------------------------ specifications
EmptyFiles ==
    \/ EfGetIds \/ EfDeleteExtra \/ EfList \/ EfDeleteFile
    \/ EfCheckStatus \/ EfFinish
CreateVs == CvGetIds \/ CvCreate \/ CvAttach
UploadFile ==
    \/ UploadStart \/ UploadFinish \/ PoolCollect
    \/ UpLoop \/ SubmitBatch \/ QueryFailed

\* a sync run: update_assistant_files as sync_assistant_files calls it.
DownloadMarkdownFiles == DlManifest \/ DlDoc
Next ==
    \/ SyncStart \/ DownloadMarkdownFiles \/ SyncExcept
    \/ EmptyFiles \/ UafAfterEmpty \/ CreateVs \/ UploadFile
    \/ CvReturn \/ UafExcept \/ SyncTail
Spec == Init /\ [][Next]_vars

\* upload_file called on its own with nFiles files and an existing, empty
\* store.
InitUpload ==
    /\ attached = <<1>>
    /\ stores = {1}
    /\ expired = {}
    /\ entries = [v \in StoreIds |-> NoEntries]
    /\ blobs = {}
    /\ vsIds = <<1>> /\ efIdx = 0 /\ listed = {} /\ nListed = 0
    /\ isProcessing = FALSE /\ failedVs = {} /\ failedOa = {}
    /\ isExpired = FALSE /\ efResult = "true" /\ efLog = NoEfLog
    /\ nFiles \in 0..MaxFiles
    /\ target = 1
    /\ task = [k \in 1..AllFiles |-> IF k <= nFiles THEN "queued" ELSE "none"]
    /\ uploads = [k \in 1..AllFiles |-> 0]
    /\ file_ids = {} /\ total_files = 0 /\ retry_count = 0
    /\ successful_files = 0 /\ remaining = {}
    /\ upLog = NoUpLog /\ upRet = "none" /\ status = "none"
    /\ NoFetch
    /\ NoStorage
    /\ pc = "up_pool"
NextUpload == UploadFile
SpecUpload == InitUpload /\ [][NextUpload]_vars

\* upload_file on its own with a few files (one more than a batch holds);
\* in SpecUploadFair the call keeps running: the workers of the pool run
\* their tasks and the calling thread takes its next step.
InitUploadFew == InitUpload /\ nFiles <= BATCH_SIZE + 1
SpecUploadFew == InitUploadFew /\ [][NextUpload]_vars
SpecUploadFair == SpecUploadFew /\ WF_vars(NextUpload)

\* empty_files called on its own, with up to MaxAttached stores attached.
InitEmpty ==
    /\ \E n \in 0..MaxAttached : attached = [i \in 1..n |-> i]
    /\ stores = Range(attached)
    /\ expired \in SUBSET (stores \cap {1})
    /\ \E e \in OldConfigs :
          entries = [v \in StoreIds |->
                        IF v = 1 /\ 1 \in stores THEN e ELSE NoEntries]
    /\ blobs = {f \in FileIds : entries[1][f] # Absent}
    /\ pc = "ef_get"
    /\ InitLocals
    /\ NoStorage
    /\ NoFetch
NextEmpty == EmptyFiles
SpecEmpty == InitEmpty /\ [][NextEmpty]_vars

\* download_markdown_files as sync_assistant_files calls it, on every
\* manifest of up to MaxLinks items.
NoRemote ==
    /\ attached = <<>> /\ stores = {} /\ expired = {} /\ blobs = {}
    /\ entries = [v \in StoreIds |-> NoEntries]
InitFetch ==
    /\ NoRemote
    /\ InitLocals
    /\ NoStorage
    /\ llm_txt_url = "url"
    /\ manifest \in Manifests
    /\ dlIdx = 0 /\ dlFailed = FALSE /\ wrFailed = FALSE /\ dir = {}
    /\ cf = <<>>
    /\ pc = "dl_manifest"
NextFetch == DownloadMarkdownFiles \/ SyncExcept
SpecFetch == InitFetch /\ [][NextFetch]_vars

\* clean_filename applied to a label, then to its own result.
InitClean ==
    /\ NoRemote
    /\ InitLocals
    /\ NoStorage
    /\ llm_txt_url = "url"
    /\ manifest = <<>> /\ dlIdx = 0 /\ dlFailed = FALSE /\ dir = {}
    /\ wrFailed = FALSE
    /\ \E label \in Labels : cf = <<label>>
    /\ pc = "clean"
NextClean == CleanFilename
SpecClean == InitClean /\ [][NextClean]_vars

\* ------------------------------------------------- storage helpers
\* sync.delete_storage_files and sync.upload_new_files are public
\* functions of sync.py that sync_assistant_files never calls; they act on
\* file storage only and are run here on their own.

\* the ids a caller may hand to delete_storage_files.
StorageIds == 1..(MaxOld + MaxStorageFiles)
SeqsUpTo(S, n) == UNION {[1..k -> S] : k \in 0..n}
\* the entries temp_dir may hold: a stem and whether the name ends in .md.
DirEntries == {[name |-> Word(i), md |-> b] :
                  i \in 1..MaxStorageFiles, b \in BOOLEAN}
\* os.listdir: the entries of the directory in an arbitrary order.
Listings(S) == {s \in [1..Cardinality(S) -> S] : Range(s) = S}
\* what client.files.delete may answer: deleted, deleted = false, or an
\* exception; only the first removes the blob.
DeleteAnswers == {"deleted", "refused", "raised"}

\* one iteration of the loop of delete_storage_files (sync.py:139-145):
\* files.delete for the next id; an exception is logged as a warning and
\* the loop goes on; the answer itself is not looked at. No vector store
\* entry is touched.
DeleteStorageFiles ==
    /\ pc = "dsf"
    /\ IF sfIds = <<>>
         THEN /\ pc' = "sf_done"
              /\ UNCHANGED <<blobs, sfIds, sfWarned>>
         ELSE LET f == Head(sfIds) IN
              \E answer \in DeleteAnswers :
                 /\ blobs' = BlobsAfterFileDelete(f, answer = "deleted")
                 /\ sfWarned' = IF answer = "raised"
                                   THEN sfWarned \cup {f} ELSE sfWarned
                 /\ sfIds' = Tail(sfIds)
                 /\ pc' = "dsf"
    /\ UNCHANGED <<attached, stores, expired, entries, efVars, upVars,
                   status, fetchVars, sfDir, sfTodo, new_file_ids>>

\* upload_new_files up to its loop (sync.py:160-164): the .md entries of
\* the directory, in the order os.listdir gave them.
UnfList ==
    /\ pc = "unf_list"
    /\ \E listing \in Listings(sfDir) :
          sfTodo' = SelectSeq(listing, LAMBDA e : e.md)
    /\ new_file_ids' = <<>>
    /\ pc' = "unf"
    /\ UNCHANGED <<remoteVars, efVars, upVars, status, fetchVars, sfIds,
                   sfDir, sfWarned>>

\* one iteration of the loop of upload_new_files (sync.py:165-170):
\* files.create for the next file and its id appended, one file after the
\* other; an exception of open or files.create leaves the function. No
\* vector store is involved.
UnfUpload ==
    /\ pc = "unf"
    /\ IF sfTodo = <<>>
         THEN /\ pc' = "sf_done"
              /\ UNCHANGED <<blobs, sfTodo, new_file_ids>>
         ELSE \/ LET id == NewId(Len(new_file_ids) + 1) IN
                 /\ blobs' = blobs \cup {id}
                 /\ new_file_ids' = Append(new_file_ids, id)
                 /\ sfTodo' = Tail(sfTodo)
                 /\ pc' = "unf"
              \/ /\ pc' = "sf_raised"
                 /\ UNCHANGED <<blobs, sfTodo, new_file_ids>>
    /\ UNCHANGED <<attached, stores, expired, entries, efVars, upVars,
                   status, fetchVars, sfIds, sfDir, sfWarned>>

\* either function called on an assistant with one store, whose files may
\* or may not still be in file storage.
InitStorage ==
    /\ attached = <<1>> /\ stores = {1} /\ expired = {}
    /\ \E e \in OldConfigs :
          entries = [v \in StoreIds |-> IF v = 1 THEN e ELSE NoEntries]
    /\ InitLocals
    /\ NoFetch
    /\ sfTodo = <<>> /\ new_file_ids = <<>> /\ sfWarned = {}
    /\ \/ /\ pc = "dsf"
          /\ blobs \in SUBSET StorageIds
          /\ sfIds \in SeqsUpTo(StorageIds, MaxStorageFiles)
          /\ sfDir = {}
       \/ /\ pc = "unf_list"
          /\ blobs \in SUBSET OldIds
          /\ sfIds = <<>>
          /\ sfDir \in SUBSET DirEntries
NextStorage == DeleteStorageFiles \/ UnfList \/ UnfUpload
SpecStorage == InitStorage /\ [][NextStorage]_vars

\* -------------------------------------------------------------- claims
\* the ids files.create gave to the files of this call.
OwnIds == {NewId(k) : k \in 1..nFiles}
SomeUploadStarted == \E k \in 1..AllFiles : uploads[k] > 0
CreateVsReturned == upRet \in {"true", "false"}

\* C1: in a sync run no document is uploaded and no batch is submitted
\* before empty_files has returned, and none at all when it returned false.
C1_ClearBeforeUpload ==
    (SomeUploadStarted \/ upLog.batches > 0 \/ blobs \cap OwnIds # {})
        => efResult = "true"
\* a run in which empty_files deleted a listed file, returned true and a
\* document was uploaded and submitted in a batch.
C1_Witness ==
    /\ efResult = "true"
    /\ efLog.listed
    /\ uploads[1] = 1
    /\ upLog.batches > 0

\* C2: when empty_files returned true, the store that receives the first
\* batch of upload_file holds no entry that existed before the run.
C2_OldEntriesCleared ==
    (efResult = "true" /\ pc = "up_batch" /\ upLog.batches = 0
        /\ target \in stores)
        => \A f \in OldIds : entries[target][f] = Absent

\* C3: after a run in which empty_files and create_vs both completed,
\* exactly one store is attached, it exists, and every other store that
\* was attached at the start (1 or 2) has been deleted.
C3_OneCanonicalStore ==
    (efResult = "true" /\ CreateVsReturned)
        => /\ Len(attached) = 1
           /\ attached[1] \in stores
           /\ \A v \in {1, 2} \ {attached[1]} : v \notin stores

\* C4: once empty_files has returned, every entry of an existing store
\* has a backing file in file storage.
C4_EntriesBacked ==
    efResult # "none"
        => \A v \in stores : \A f \in EntriesOf(v) : f \in blobs

\* C5: when attempt 1 ends with every batch completed and K > 0 entries
\* in failed status, attempt 2 starts with exactly those K ids (they are
\* the ids a delete is issued for, lines 302-306); and when after attempt
\* 2 all K are completed and no failed entry is left, upload_file returns
\* true.
C5_RetryExactlyFailed ==
    LET K == upLog.failed1 IN
    (upLog.queries >= 1 /\ K # {})
        => /\ (pc = "up_loop" /\ retry_count = 1) => file_ids = K
           /\ (upLog.queries = 2 /\ pc \in {"up_loop", "up_done"}
                 /\ (\A f \in K : entries[target][f] = "completed")
                 /\ FailedIn(target) = {})
                => upRet = "true"

\* C6: when upload_file has run three attempts and a file of the call is
\* still failed, it returns false and the failure count it reports,
\* total_files - successful_files, is the number of files of the call
\* that are not registered as completed.
C6_ExhaustedReportsFailures ==
    (upLog.queries = 3 /\ upRet # "none"
        /\ \E f \in OwnIds : entries[target][f] = "failed")
        => /\ upRet = "false"
           /\ upLog.reported = total_files - successful_files
           /\ upLog.reported =
                Cardinality({f \in OwnIds : entries[target][f] # "completed"})

\* C7: once a batch has been polled with a status other than completed,
\* upload_file has returned false: it is at no point of the batch loop,
\* of the failed-file query or of a further attempt.
C7_BadBatchIsFatal ==
    upLog.badBatch
        => (upRet = "false" /\ pc \in {"up_done", "sync_tail", "done"})
\* a batch of the second attempt is not completed while ids of that
\* attempt are still waiting for their batch.
C7_Witness ==
    /\ upLog.badBatch
    /\ retry_count = 1
    /\ upLog.queries = 1
    /\ Cardinality(remaining) > BATCH_SIZE
    /\ upRet = "false"

\* C8: when every batch of attempt 1 completed and no entry is in failed
\* status afterwards, upload_file returns true after that one attempt
\* with successful_files = total_files.
C8_CleanFirstAttempt ==
    (upLog.queries >= 1 /\ upLog.failed1 = {})
        => /\ upRet = "true"
           /\ upLog.queries = 1
           /\ retry_count = 0
           /\ successful_files = total_files
           /\ total_files = nFiles
\* more than BATCH_SIZE files, all completed in the first attempt.
C8_Witness ==
    /\ upRet = "true"
    /\ upLog.failed1 = {}
    /\ upLog.batches >= 2
    /\ total_files > BATCH_SIZE

\* C9: when an upload to file storage raised, no batch is ever submitted
\* and upload_file ends by raising.
C9_UploadRaiseAborts ==
    (\E k \in 1..nFiles : task[k] = "raised")
        => /\ upLog.batches = 0
           /\ pc \in {"up_pool", "raised", "done"}
           /\ (pc # "up_pool" => upRet = "raised")
\* one upload raised, another one succeeded, and upload_file raised.
C9_Witness ==
    /\ pc = "raised"
    /\ upRet = "raised"
    /\ \E j, k \in 1..nFiles : task[j] = "raised" /\ task[k] = "done"

\* C10: at most MAX_CONCURRENCY uploads are in flight, no file is
\* uploaded twice, and when the batch stage is reached every listed file
\* has been uploaded exactly once and is in file storage.
C10_BoundedPool ==
    /\ InFlight <= MAX_CONCURRENCY
    /\ \A k \in 1..AllFiles : uploads[k] <= 1
    /\ (pc \in {"up_loop", "up_batch", "up_query", "up_done"})
          => \A k \in 1..nFiles :
                uploads[k] = 1 /\ task[k] = "done" /\ NewId(k) \in blobs
\* every worker is busy and a file is still queued.
C10_Witness ==
    /\ InFlight = MAX_CONCURRENCY
    /\ Queued # {}
    /\ nFiles > MAX_CONCURRENCY


\* the stores attached besides the first, as empty_files saw them.
ExtraStores == Range(vsIds) \ {vsIds[1]}
InEmptyFiles == pc \in {"ef_extras", "ef_list", "ef_del", "ef_status",
                        "ef_fallback"}
PastExtras == pc \in {"ef_list", "ef_del", "ef_status", "ef_fallback"}
EmptyFilesReturned == pc = "uaf_check"

\* C11: with no vector store attached (file search not enabled included),
\* empty_files returns true in one step and changes nothing remotely: no
\* store is deleted, no file entry or file is deleted, no store is updated,
\* and no such call is even issued.
C11_NothingAttachedNoop ==
    [][(pc = "ef_get" /\ attached = <<>>) =>
          /\ efResult' = "true"
          /\ pc' = "uaf_check"
          /\ remoteVars' = remoteVars
          /\ efLog' = NoEfLog]_vars
C11_Witness ==
    /\ EmptyFilesReturned
    /\ attached = <<>> /\ vsIds = <<>>
    /\ efResult = "true" /\ efLog = NoEfLog

\* C12: with n >= 2 stores attached, once the loop over the extras is over
\* a delete has been issued for each of the n - 1 stores other than the
\* first; every later call of empty_files is addressed to the first store
\* only; and when the deletions of extras were all refused (deleted =
\* false) the clearing of the first store still took place.
C12_ExtrasDeletedFirstKept ==
    ((InEmptyFiles \/ EmptyFilesReturned) /\ Len(vsIds) >= 2) =>
       /\ efLog.touched \subseteq {vsIds[1]}
       /\ efLog.extraDeletes \subseteq ExtraStores
       /\ (PastExtras \/ efLog.touched # {}) =>
             /\ efLog.extraDeletes = ExtraStores
             /\ Cardinality(efLog.extraDeletes) = Len(vsIds) - 1
       /\ (efLog.extraRefused # {}
             /\ (PastExtras \/ efLog.extraRefused = ExtraStores)) =>
             \/ pc = "ef_list"
             \/ efLog.touched = {vsIds[1]}
C12_Witness ==
    /\ EmptyFilesReturned
    /\ Len(vsIds) = 3
    /\ efLog.extraDeletes = {2, 3}
    /\ efLog.extraRefused = {2}
    /\ efLog.touched = {1}
    /\ efResult = "true"

\* C13: at its decision (line 162) empty_files issues the deletion of the
\* whole first store if and only if a listed file was in_progress, or a
\* per-file deletion (store entry or backing file) failed, or the store was
\* found expired; otherwise the store is kept and holds none of the listed
\* files.
C13_FallbackIffDirty ==
    [][pc = "ef_fallback" =>
          LET dirty == \/ isProcessing
                       \/ failedVs # {} \/ failedOa # {}
                       \/ isExpired
          IN /\ (efLog'.fallback # "no") <=> dirty
             /\ ~dirty =>
                   /\ stores' = stores /\ vsIds[1] \in stores'
                   /\ entries' = entries
                   /\ EntriesOf(vsIds[1]) = {}]_vars
C13_Witness ==
    /\ EmptyFilesReturned
    /\ efLog.fallback = "deleted" /\ efLog.listed
    /\ vsIds[1] \notin stores
    /\ blobs # {}

\* C14: empty_files returns false only when an exception of a remote call
\* reached its handler, and then it returns false instead of letting the
\* exception out; failed per-file deletions and a refused deletion of the
\* whole store leave the result true.
C14_FalseOnlyOnException ==
    /\ efResult = "false" => efLog.raised
    /\ efLog.raised => (efResult = "false" /\ upRet = "none"
                          /\ pc \in {"uaf_check", "sync_tail", "done"})
    /\ efLog.fallback \in {"deleted", "failed"} => efResult = "true"
C14_Witness ==
    /\ efLog.fallback = "failed"
    /\ efResult = "true"
    /\ blobs # {}


\* C15: create_vs creates a new store and attaches exactly it when it finds
\* none attached, narrows the attachment to the first id when it finds more
\* than one, and in every case hands upload_file the one id that is
\* attached afterwards.
C15_UploadTargetIsSoleAttachment ==
    /\ [](target # 0 => attached = <<target>>)
    /\ [](pc = "cv_attach" => (vsIds = <<NewStore>> /\ NewStore \in stores))
    /\ [][pc = "cv_get" =>
            /\ attached = <<>> => pc' = "cv_create"
            /\ Len(vsIds') > 1 => pc' = "cv_narrow"]_vars
    /\ [][(pc = "cv_attach" \/ pc = "cv_narrow") =>
            \/ pc' = "raised" /\ attached' = attached /\ target' = 0
            \/ (target' = vsIds[1] /\ attached' = <<vsIds[1]>>)]_vars
C15_Witness ==
    /\ pc = "up_pool"
    /\ vsIds = <<1, 2>>
    /\ target = 1 /\ attached = <<1>>

\* C16: at the end of a run the status is the success message only if
\* empty_files returned true and create_vs returned true; when one of them
\* returned false or raised, the status is an error.
C16_StatusFollowsResults ==
    pc = "done" =>
       /\ status = "success" => (efResult = "true" /\ upRet = "true")
       /\ (efResult = "false" \/ upRet \in {"false", "raised"}) =>
             status = "error"


\* the download stage was entered and is over, and every request was
\* answered.
FetchDone ==
    /\ Configured(llm_txt_url)
    /\ ~dlFailed
    /\ pc \notin {"sync_start", "dl_manifest", "dl_doc"}
MdLinkCount ==
    Cardinality({i \in 1..Len(manifest) : manifest[i].kind = "md"})

\* C17: once the request of the manifest or of a document has failed, no
\* further document is requested or written, the run ends in the handler
\* of sync_assistant_files, and nothing is changed remotely: empty_files and
\* create_vs are never entered.
C17_FailedFetchStopsRun ==
    /\ [](dlFailed =>
            /\ pc \in {"sync_except", "done"}
            /\ efResult = "none" /\ efLog = NoEfLog /\ vsIds = <<>>
            /\ target = 0 /\ upRet = "none" /\ upLog = NoUpLog)
    /\ [][dlFailed' =>
            /\ remoteVars' = remoteVars
            /\ dlFailed => (dlIdx' = dlIdx /\ dir' = dir)]_vars
C17_Witness ==
    /\ dlFailed /\ pc = "done" /\ status = "error"
    /\ dlIdx = 1 /\ dir = {}
    /\ Len(extract_markdown_links(manifest)) = 2

\* C18: when the fetch of a manifest with N links to markdown documents
\* and M other items is over, exactly N documents have been requested and
\* the scratch directory holds exactly N files, whatever the labels.
C18_OneFilePerLink ==
    FetchDone => (dlIdx = MdLinkCount /\ Cardinality(dir) = MdLinkCount)

\* C19: clean_filename is idempotent: cleaning a cleaned label gives the
\* cleaned label again, truncated labels included.
C19_CleanIdempotent ==
    Len(cf) = 3 => cf[3] = cf[2]

\* C20 as claimed: a label whose sanitized length is 100 or more comes out
\* as its first 97 characters followed by "...", a shorter one untruncated,
\* and no result is longer than 100 characters.
C20_TruncatedFrom100 ==
    Len(cf) >= 2 =>
       LET t == Strip(Sub(cf[1])) IN
       /\ StrLen(t) >= 100 =>
             (cf[2] = Norm(Take(t, 97) \o Ellipsis) /\ StrLen(cf[2]) = 100)
       /\ StrLen(t) < 100 => cf[2] = t
       /\ StrLen(cf[2]) <= 100

\* C20 as the code has it: a label whose sanitized length is more than 100
\* comes out as its first 97 characters followed by "...", one of 100 or
\* fewer characters untruncated, and no result is longer than 100
\* characters.
C20_TruncatedAbove100 ==
    Len(cf) >= 2 =>
       LET t == Strip(Sub(cf[1])) IN
       /\ StrLen(t) > 100 =>
             (cf[2] = Norm(Take(t, 97) \o Ellipsis) /\ StrLen(cf[2]) = 100)
       /\ StrLen(t) <= 100 => cf[2] = t
       /\ StrLen(cf[2]) <= 100
C20_Witness ==
    /\ Len(cf) >= 2
    /\ StrLen(Strip(Sub(cf[1]))) = 100
    /\ cf[2] = Strip(Sub(cf[1]))
    /\ cf[2] # cf[1]


\* C21: once one upload has raised, no other upload is started and none
\* completes afterwards.
C21_RaiseStopsUploads ==
    [][(\E k \in 1..nFiles : task[k] = "raised") =>
          /\ uploads' = uploads
          /\ \A k \in 1..nFiles : task[k] = "running" => task'[k] = "running"
          /\ blobs' = blobs]_vars


UploadEnded == pc = "up_done" \/ pc = "raised"

\* C22: upload_file terminates: it ends by returning true or false, or with
\* the exception of a remote call that raised; the indexing stage runs at
\* most 3 attempts, and an attempt submits every id of its id set in exactly
\* one batch of at most BATCH_SIZE ids.
C22_UploadTerminates ==
    /\ <>UploadEnded
    /\ [](pc = "up_done" => upRet \in {"true", "false"})
    /\ [](pc = "raised" => upRet = "raised")
    /\ []((pc = "up_batch" \/ pc = "up_query") =>
             (retry_count < 3 /\ upLog.queries <= retry_count
                /\ remaining \subseteq file_ids))
    /\ [](pc = "up_query" => remaining = {})
    /\ [][(pc = "up_batch" /\ (pc' = "up_batch" \/ pc' = "up_query")) =>
            /\ remaining' \subseteq remaining
            /\ remaining' # remaining
            /\ Cardinality(remaining \ remaining') <= BATCH_SIZE
            /\ file_ids' = file_ids]_vars
C22_Witness ==
    /\ pc = "up_done" /\ upRet = "false"
    /\ retry_count = 2 /\ upLog.queries = 3
    /\ upLog.batches > 3


InIndexingStage == pc \in {"up_loop", "up_batch", "up_query"}

\* C23: the indexing and retry stage of upload_file deletes no file from
\* storage: from its start to the return of upload_file, false included,
\* the stored files are those the call uploaded; between attempts it
\* removes only entries whose status is failed.
C23_RetryKeepsBlobs ==
    /\ []((InIndexingStage \/ pc = "up_done") => blobs = OwnIds)
    /\ [][InIndexingStage =>
            /\ blobs' = blobs
            /\ \A f \in FileIds :
                  (entries[target][f] # Absent
                      /\ entries'[target][f] = Absent) =>
                     (pc = "up_query" /\ entries[target][f] = "failed")]_vars
C23_Witness ==
    /\ pc = "up_done" /\ upRet = "false"
    /\ retry_count = 2
    /\ blobs = OwnIds /\ nFiles > 1
    /\ \E f \in OwnIds : entries[target][f] = Absent


\* C24: when upload_file returns true, every file id it uploaded in this
\* call is an entry of the target store with status completed.
C24_TrueMeansAllCompleted ==
    (pc = "up_done" /\ upRet = "true") =>
       \A f \in OwnIds : entries[target][f] = "completed"


\* C25: upload_file called with no file submits no batch, makes no
\* failed-file query and returns false; so a run whose manifest has no
\* markdown document goes through empty_files and then logs that the upload
\* failed.
C25_NoFilesReturnsFalse ==
    (target # 0 /\ nFiles = 0) =>
       /\ upLog.batches = 0 /\ upLog.queries = 0
       /\ upRet \in {"none", "false"}
       /\ pc \in {"up_done", "sync_tail", "done"} => upRet = "false"
       /\ pc \in {"sync_tail", "done"} =>
             (upLog.uafError /\ efResult = "true" /\ MdLinkCount = 0)
C25_Witness ==
    /\ pc = "done"
    /\ target # 0 /\ nFiles = 0 /\ MdLinkCount = 0
    /\ upRet = "false" /\ upLog.uafError
    /\ upLog.batches = 0 /\ upLog.queries = 0
    /\ efLog.listed /\ EntriesOf(target) = {}

=============================================================================
